---------------------------- MODULE Spec2Model ----------------------------
(***************************************************************************)
(* Model of src/mcp_server.py: a FastAPI service with two POST handlers    *)
(* (search_documentation, get_code_examples), two GET handlers and one     *)
(* process-wide dictionary DOC_CACHE.                                      *)
(*                                                                         *)
(* Strings are sequences of one-character strings, so that lower(),        *)
(* strip(), the substring test and the f-string that builds the cache key  *)
(* are computed and not assumed.  Fixed texts of the source (URL prefixes, *)
(* message prefixes) are kept as one element of such a sequence.           *)
(* Optional[T] is a sequence of length at most one: None is << >>.         *)
(*                                                                         *)
(* The handlers are coroutines on one event loop: the code between two     *)
(* awaits runs atomically, and the awaits (session.get, response.text)     *)
(* are the points where other requests interleave.  Leaving the async     *)
(* with blocks may suspend the coroutine once more; nothing the handler    *)
(* does after that reads shared state, so that point is not kept apart     *)
(* from the await before it.                                               *)
(***************************************************************************)
EXTENDS Integers, Sequences, FiniteSets, TLC

\* ------------------------------------------------------------------------
\* Bounds of the model
\* ------------------------------------------------------------------------
\* Number of requests the service accepts in one behaviour.
MaxRequests == 2
\* Number of requests that can be in flight at the same time.
MaxInFlight == 2

\* ------------------------------------------------------------------------
\* Strings
\* ------------------------------------------------------------------------
None == << >>

Some(x) == << x >>

\* the letters str.lower() changes (ASCII)
LOWERCASE ==
    [c \in { "A", "B", "C", "D", "E", "F", "G", "H", "I", "J", "K", "L", "M",
              "N", "O", "P", "Q", "R", "S", "T", "U", "V", "W", "X", "Y", "Z" } |->
        CASE c = "A" -> "a" [] c = "B" -> "b" [] c = "C" -> "c" [] c = "D" -> "d"
          [] c = "E" -> "e" [] c = "F" -> "f" [] c = "G" -> "g" [] c = "H" -> "h"
          [] c = "I" -> "i" [] c = "J" -> "j" [] c = "K" -> "k" [] c = "L" -> "l"
          [] c = "M" -> "m" [] c = "N" -> "n" [] c = "O" -> "o" [] c = "P" -> "p"
          [] c = "Q" -> "q" [] c = "R" -> "r" [] c = "S" -> "s" [] c = "T" -> "t"
          [] c = "U" -> "u" [] c = "V" -> "v" [] c = "W" -> "w" [] c = "X" -> "x"
          [] c = "Y" -> "y" [] c = "Z" -> "z"]

\* str.lower() on one character
LowerChar(c) == IF c \in DOMAIN LOWERCASE THEN LOWERCASE[c] ELSE c

\* str.lower()
Lower(s) == [i \in 1..Len(s) |-> LowerChar(s[i])]

Whitespace == {" "}

RECURSIVE LStrip(_)
LStrip(s) ==
    IF s # << >> /\ Head(s) \in Whitespace THEN LStrip(Tail(s)) ELSE s

RECURSIVE RStrip(_)
RStrip(s) ==
    IF s # << >> /\ s[Len(s)] \in Whitespace
    THEN RStrip(SubSeq(s, 1, Len(s) - 1))
    ELSE s

\* str.strip()
Strip(s) == RStrip(LStrip(s))

\* `sub in s` for strings
Contains(sub, s) ==
    \E i \in 0..(Len(s) - Len(sub)) : SubSeq(s, i + 1, i + Len(sub)) = sub

\* seq[:n] with Python's meaning of a negative or missing bound
PySlice(s, n) ==
    IF n = None THEN s
    ELSE IF n[1] >= 0
         THEN SubSeq(s, 1, IF n[1] < Len(s) THEN n[1] ELSE Len(s))
         ELSE SubSeq(s, 1, IF Len(s) + n[1] > 0 THEN Len(s) + n[1] ELSE 0)

\* ------------------------------------------------------------------------
\* Source registry
\* ------------------------------------------------------------------------
python == << "p", "y", "t", "h", "o", "n" >>
javascript == << "j", "a", "v", "a", "s", "c", "r", "i", "p", "t" >>
nodejs == << "n", "o", "d", "e", "j", "s" >>
react == << "r", "e", "a", "c", "t" >>
tensorflow == << "t", "e", "n", "s", "o", "r", "f", "l", "o", "w" >>
pandas == << "p", "a", "n", "d", "a", "s" >>
django == << "d", "j", "a", "n", "g", "o" >>
flask == << "f", "l", "a", "s", "k" >>
fastapi == << "f", "a", "s", "t", "a", "p", "i" >>
numpy == << "n", "u", "m", "p", "y" >>
pytorch == << "p", "y", "t", "o", "r", "c", "h" >>

DOC_SOURCES ==
    [k \in { python, javascript, nodejs, react, tensorflow, pandas, django,
             flask, fastapi, numpy, pytorch } |->
        CASE k = python -> "https://docs.python.org/3/"
          [] k = javascript -> "https://developer.mozilla.org/en-US/docs/Web/JavaScript/"
          [] k = nodejs -> "https://nodejs.org/api/"
          [] k = react -> "https://reactjs.org/docs/"
          [] k = tensorflow -> "https://www.tensorflow.org/api_docs/"
          [] k = pandas -> "https://pandas.pydata.org/docs/"
          [] k = django -> "https://docs.djangoproject.com/en/stable/"
          [] k = flask -> "https://flask.palletsprojects.com/en/latest/"
          [] k = fastapi -> "https://fastapi.tiangolo.com/"
          [] k = numpy -> "https://numpy.org/doc/stable/"
          [] k = pytorch -> "https://pytorch.org/docs/stable/"]

\* The template is the text before and the text after the {} slot.
CODE_EXAMPLE_SOURCES ==
    [k \in { python, javascript, nodejs } |->
        CASE k = python ->
               << "https://docs.python.org/3/search.html?q=",
                  "&check_keywords=yes&area=default" >>
          [] k = javascript ->
               << "https://developer.mozilla.org/en-US/search?q=", "" >>
          [] k = nodejs ->
               << "https://nodejs.org/api/all.html#all_", "" >>]

\* dict.get(key): None when the key is absent
DictGet(d, k) == IF k \in DOMAIN d THEN Some(d[k]) ELSE None

\* ------------------------------------------------------------------------
\* Result objects
\* ------------------------------------------------------------------------
DocumentationResult(library, term, results, error) ==
    [library |-> library, term |-> term, results |-> results, error |-> error]

CodeExampleResult(library, function, examples, error) ==
    [library |-> library, function |-> function, examples |-> examples,
     error |-> error]

\* ------------------------------------------------------------------------
\* HTML documents: the elements the selectors of the source look at, in
\* document order
\* ------------------------------------------------------------------------
Headings == {"h1", "h2", "h3", "h4", "h5", "h6"}

Element(kind, text, link, snippet) ==
    [kind |-> kind, text |-> text, link |-> link, snippet |-> snippet]

\* <a href=...>text</a>; href is None when the attribute is missing
Anchor(href, text) == [href |-> href, text |-> text]

\* BeautifulSoup.select(selector): matching elements in document order,
\* as positions in the document
SelectIdx(html, kinds) ==
    LET idx == [i \in 1..Len(html) |-> i]
        Matches(i) == html[i].kind \in kinds
    IN  SelectSeq(idx, Matches)

Select(html, selector) ==
    LET ix == SelectIdx(html, {selector})
    IN  [j \in 1..Len(ix) |-> html[ix[j]]]

\* Tag.find_previous(names): the nearest earlier element with one of the names
FindPrevious(html, i, names) ==
    LET earlier == {j \in 1..(i - 1) : html[j].kind \in names}
    IN  IF earlier = {} THEN None
        ELSE Some(html[CHOOSE j \in earlier : \A k \in earlier : k <= j])

\* f"{href}" : a missing attribute formats as the text None
FormatHref(href) == IF href = None THEN << "None" >> ELSE href[1]

\* one entry of results: title, url, description
SearchRecord(prefix, result) ==
    [title |-> Strip(result.link[1].text),
     url |-> << prefix >> \o FormatHref(result.link[1].href),
     description |->
        IF result.snippet # None THEN Strip(result.snippet[1]) ELSE << >>]

\* the loop over search_results[:query.max_results], keeping items with a link
ParseSearchResults(html, selector, prefix, max_results) ==
    LET search_results == PySlice(Select(html, selector), max_results)
        HasLink(result) == result.link # None
        linked == SelectSeq(search_results, HasLink)
    IN  [j \in 1..Len(linked) |-> SearchRecord(prefix, linked[j])]

\* the if / elif on query.library.lower() that picks the parsing logic
ParseDocs(library, html, max_results) ==
    IF Lower(library) = python
    THEN ParseSearchResults(html, "ul.search li",
                            "https://docs.python.org/3/", max_results)
    ELSE IF Lower(library) = javascript
    THEN ParseSearchResults(html, ".result-list .result",
                            "https://developer.mozilla.org", max_results)
    ELSE << >>

\* one entry of examples: title, code, language
ExampleRecord(html, i) ==
    LET heading == FindPrevious(html, i, Headings)
    IN  [title |-> IF heading # None THEN Strip(heading[1].text)
                   ELSE << "Example" >>,
         code |-> Strip(html[i].text),
         language |-> python]

\* the loop over code_blocks[:query.max_examples], keeping the blocks whose
\* text contains query.function
ParseExamples(language, html, function, max_examples) ==
    IF language = python
    THEN LET code_blocks == PySlice(SelectIdx(html, {"pre"}), max_examples)
             HasFunction(i) == Contains(function, html[i].text)
             kept == SelectSeq(code_blocks, HasFunction)
         IN  [j \in 1..Len(kept) |-> ExampleRecord(html, kept[j])]
    ELSE << >>

\* ------------------------------------------------------------------------
\* Documentation cache
\* ------------------------------------------------------------------------
\* cache_key = f"{query.library}:{query.term}"
CacheKey(query) == query.library \o << ":" >> \o query.term

\* DOC_CACHE[cache_key] = result
CacheStore(cache, cache_key, result) ==
    [k \in DOMAIN cache \cup {cache_key} |->
        IF k = cache_key THEN result ELSE cache[k]]

\* ------------------------------------------------------------------------
\* The handlers, one operator per stretch of code between two awaits.
\* Each gives what the stretch leaves behind: where the coroutine waits next
\* (or "done"), the URL it requests, the object it returns, the exception
\* that leaves the handler, the cache, and whether the parsing code ran.
\* ------------------------------------------------------------------------
Await(next, url, cache) ==
    [next |-> next, url |-> url, response |-> None, raised |-> None,
     cache |-> cache, extracted |-> FALSE]

Return(result, cache, extracted) ==
    [next |-> "done", url |-> None, response |-> Some(result),
     raised |-> None, cache |-> cache, extracted |-> extracted]

\* search_url of search_documentation
DocSearchUrl(query, base_url) ==
    IF Lower(query.library) = python
    THEN << "https://docs.python.org/3/search.html?q=" >> \o query.term
            \o << "&check_keywords=yes&area=default" >>
    ELSE IF Lower(query.library) = javascript
    THEN << "https://developer.mozilla.org/en-US/search?q=" >> \o query.term
    ELSE << base_url, "search.html?q=" >> \o query.term

\* Mutant: the handler has no except clause, the exception leaves it.
SearchDocsExceptPropagates(cache, query, e) ==
    [next |-> "done", url |-> None, response |-> None, raised |-> Some(e),
     cache |-> cache, extracted |-> FALSE]

\* except Exception as e: of search_documentation
SearchDocsExcept(cache, query, e) ==
    Return(DocumentationResult(query.library, query.term, << >>, Some(e)),
           cache, FALSE)

\* Mutant: the "is not available" result is put in the cache.
SearchDocsEnterCachesNotAvailable(cache, query) ==
    LET cache_key == CacheKey(query)
        base_url == DictGet(DOC_SOURCES, Lower(query.library))
        unavailable ==
            DocumentationResult(query.library, query.term, << >>,
                Some(<< "Documentation for " >> \o query.library
                     \o << " is not available" >>))
    IN  IF cache_key \in DOMAIN cache
        THEN Return(cache[cache_key], cache, FALSE)
        ELSE IF base_url = None
        THEN Return(unavailable, CacheStore(cache, cache_key, unavailable), FALSE)
        ELSE Await("get", Some(DocSearchUrl(query, base_url[1])), cache)

\* search_documentation up to session.get
SearchDocsEnter(cache, query) ==
    LET cache_key == CacheKey(query)
        base_url == DictGet(DOC_SOURCES, Lower(query.library))
    IN  IF cache_key \in DOMAIN cache
        THEN Return(cache[cache_key], cache, FALSE)
        ELSE IF base_url = None
        THEN Return(DocumentationResult(query.library, query.term, << >>,
                        Some(<< "Documentation for " >> \o query.library
                             \o << " is not available" >>)),
                    cache, FALSE)
        ELSE Await("get", Some(DocSearchUrl(query, base_url[1])), cache)

\* Mutant: the "Failed to fetch" result is put in the cache.
SearchDocsStatusCachesFailure(cache, query, status) ==
    LET failed ==
            DocumentationResult(query.library, query.term, << >>,
                Some(<< "Failed to fetch documentation: ", ToString(status) >>))
    IN  IF status # 200
        THEN Return(failed, CacheStore(cache, CacheKey(query), failed), FALSE)
        ELSE Await("text", None, cache)

\* search_documentation from the response of session.get to response.text()
SearchDocsStatus(cache, query, status) ==
    IF status # 200
    THEN Return(DocumentationResult(query.library, query.term, << >>,
                    Some(<< "Failed to fetch documentation: ",
                            ToString(status) >>)),
                cache, FALSE)
    ELSE Await("text", None, cache)

\* Mutant: the result is returned without being put in the cache.
SearchDocsTextNoStore(cache, query, html) ==
    LET results == ParseDocs(query.library, html, query.max_results)
        result == DocumentationResult(query.library, query.term, results, None)
    IN  Return(result, cache, TRUE)

\* Mutant: DOC_CACHE.setdefault(cache_key, result), the first write stays.
SearchDocsTextKeepsFirst(cache, query, html) ==
    LET results == ParseDocs(query.library, html, query.max_results)
        result == DocumentationResult(query.library, query.term, results, None)
    IN  Return(result,
               IF CacheKey(query) \in DOMAIN cache THEN cache
               ELSE CacheStore(cache, CacheKey(query), result),
               TRUE)

\* search_documentation from the body to the return
SearchDocsText(cache, query, html) ==
    LET results == ParseDocs(query.library, html, query.max_results)
        result == DocumentationResult(query.library, query.term, results, None)
    IN  Return(result, CacheStore(cache, CacheKey(query), result), TRUE)

\* except Exception as e: of get_code_examples
CodeExamplesExcept(cache, query, e) ==
    Return(CodeExampleResult(query.library, query.function, << >>, Some(e)),
           cache, FALSE)

\* Mutant: no membership test; CODE_EXAMPLE_SOURCES[language] raises KeyError.
CodeExamplesEnterNoMembershipTest(cache, query) ==
    IF query.language = None
    THEN CodeExamplesExcept(cache, query,
             << "'NoneType' object has no attribute 'lower'" >>)
    ELSE LET language == Lower(query.language[1])
         IN  IF language \notin DOMAIN CODE_EXAMPLE_SOURCES
             THEN CodeExamplesExcept(cache, query,
                      << "'" >> \o language \o << "'" >>)
             ELSE Await("get",
                        Some(<< CODE_EXAMPLE_SOURCES[language][1] >>
                             \o query.function
                             \o << CODE_EXAMPLE_SOURCES[language][2] >>),
                        cache)

\* get_code_examples up to session.get
CodeExamplesEnter(cache, query) ==
    IF query.language = None
    THEN CodeExamplesExcept(cache, query,
             << "'NoneType' object has no attribute 'lower'" >>)
    ELSE LET language == Lower(query.language[1])
         IN  IF language \notin DOMAIN CODE_EXAMPLE_SOURCES
             THEN Return(CodeExampleResult(query.library, query.function, << >>,
                             Some(<< "Code examples for " >> \o language
                                  \o << " are not available" >>)),
                         cache, FALSE)
             ELSE Await("get",
                        Some(<< CODE_EXAMPLE_SOURCES[language][1] >>
                             \o query.function
                             \o << CODE_EXAMPLE_SOURCES[language][2] >>),
                        cache)

\* get_code_examples from the response of session.get to response.text()
CodeExamplesStatus(cache, query, status) ==
    IF status # 200
    THEN Return(CodeExampleResult(query.library, query.function, << >>,
                    Some(<< "Failed to fetch code examples: ",
                            ToString(status) >>)),
                cache, FALSE)
    ELSE Await("text", None, cache)

\* get_code_examples from the body to the return
CodeExamplesText(cache, query, html) ==
    LET examples == ParseExamples(Lower(query.language[1]), html,
                                  query.function, query.max_examples)
    IN  Return(CodeExampleResult(query.library, query.function, examples, None),
               cache, TRUE)

\* get_available_documentation
AvailableDocsReturn(cache) ==
    Return([available_libraries |->
               << python, javascript, nodejs, react, tensorflow, pandas,
                  django, flask, fastapi, numpy, pytorch >>],
           cache, FALSE)

\* health_check
HealthReturn(cache) == Return([status |-> "healthy"], cache, FALSE)

\* ------------------------------------------------------------------------
\* Requests the clients send and replies the documentation sites give
\* ------------------------------------------------------------------------
Python == << "P" >> \o Tail(python)

\* A library spelt with a capital, two more of the registry, and a name that
\* is in no registry and has a colon in it.
Libraries == { Python, javascript, nodejs, Python \o << ":", "a" >> }

Terms == { << "b" >>, << "a", ":", "b" >> }

\* Optional[int]: null, or a number smaller than the number of matching
\* elements the pages below have
Caps == { None, Some(1) }

Languages ==
    { None, Some(Python), Some(nodejs), Some(<< "r", "u", "b", "y" >>) }

Functions == { << "f", "n" >> }

DocumentationQuery ==
    [library : Libraries, term : Terms, max_results : Caps]

CodeExampleQuery ==
    [library : {numpy}, function : Functions, language : Languages,
     max_examples : Caps]

Statuses == {200, 204, 404}

\* what str(e) gives for the failures of session.get and response.text()
GetErrors == { << "Cannot connect to host" >> }

TextErrors == { << "Response payload is not completed" >> }

PageA ==
    << Element("pre", << " ", "F", "n", "(", ")" >>, None, None),
       Element("h2", << " ", "U", "s", "e", " " >>, None, None),
       Element("pre", << "f", "n", "(", ")", " " >>, None, None),
       Element("ul.search li", << >>,
               Some(Anchor(Some(<< "a" >>), << " ", "A" >>)),
               Some(<< "c", " " >>)),
       Element("ul.search li", << >>, None, None),
       Element("ul.search li", << >>, Some(Anchor(None, << "B" >>)), None),
       Element(".result-list .result", << >>,
               Some(Anchor(Some(<< "/", "r" >>), << "R" >>)), Some(<< "e" >>)),
       Element(".result-list .result", << >>,
               Some(Anchor(Some(<< "/", "s" >>), << "S" >>)), None) >>

PageB ==
    << Element("pre", << "f", "n" >>, None, None),
       Element("ul.search li", << >>,
               Some(Anchor(Some(<< "c" >>), << "C" >>)), None) >>

Pages == { PageA, PageB }

\* ------------------------------------------------------------------------
\* State
\* ------------------------------------------------------------------------
VARIABLES
    DOC_CACHE,   \* the dictionary: cache key -> DocumentationResult
    req,         \* per execution context, the request it is handling
    served,      \* number of requests accepted so far
    lastStore,   \* history: cache key -> the result last written under it
    stored,      \* history: <<library, term>> -> the result its request stored
    okReturned   \* history: <<library, term>> -> the object returned by its
                 \* request that got status 200

vars == << DOC_CACHE, req, served, lastStore, stored, okReturned >>

Slots == 1..MaxInFlight

\* pc: "idle", "get" (waiting in session.get), "text" (waiting in
\* response.text()), "done" (the handler has returned or raised).
\* fetches, stores, extracted, cachedAfter, raced, overlapped, prior, priorOk
\* are history of the request: the GETs it sent, the changes it made to the
\* cache, whether its parsing code ran, whether the cache held its key when
\* it returned, whether another request wrote its key while it waited,
\* whether another request for the same library and term waited at the same
\* time, and what stored and okReturned held for its <<library, term>> when
\* it arrived.
IdleSlot ==
    [pc |-> "idle", kind |-> "none", query |-> None, url |-> None,
     status |-> None, html |-> None, response |-> None, raised |-> None,
     fetches |-> 0, stores |-> 0, extracted |-> FALSE, cachedAfter |-> FALSE,
     raced |-> FALSE, overlapped |-> FALSE, prior |-> None, priorOk |-> None]

Init ==
    /\ DOC_CACHE = << >>
    /\ req = [r \in Slots |-> IdleSlot]
    /\ served = 0
    /\ lastStore = << >>
    /\ stored = << >>
    /\ okReturned = << >>

Pair(query) == << query.library, query.term >>

\* history: f with v recorded under k
Recorded(f, k, v) == [x \in DOMAIN f \cup {k} |-> IF x = k THEN v ELSE f[x]]

IsDocs(slot) == slot.kind = "search_docs"

\* The keys the step changed in the cache.
Written(cache) ==
    {k \in DOMAIN cache : k \notin DOMAIN DOC_CACHE \/ cache[k] # DOC_CACHE[k]}
    \cup (DOMAIN DOC_CACHE \ DOMAIN cache)

\* Slot r has run one stretch of its handler with the given outcome.
Advance(r, slot, out) ==
    LET returns == out.next = "done"
        docs == IsDocs(slot)
        written == Written(out.cache)
        Waiting(x) == x.pc \in {"get", "text"} /\ IsDocs(x)
        \* slot r waits after this step, with the same library and term as s
        Joins(s) == /\ s # r
                    /\ docs /\ out.next \in {"get", "text"}
                    /\ Waiting(req[s])
                    /\ Pair(req[s].query[1]) = Pair(slot.query[1])
    IN  /\ DOC_CACHE' = out.cache
        /\ req' = [s \in Slots |->
             IF s = r
             THEN [slot EXCEPT
                     !.overlapped = @ \/ \E t \in Slots : Joins(t),
                     !.pc = out.next,
                     !.url = IF out.url # None THEN out.url ELSE @,
                     !.response = out.response,
                     !.raised = out.raised,
                     !.extracted = out.extracted,
                     !.fetches = IF out.url # None THEN @ + 1 ELSE @,
                     !.stores = IF written # {} THEN @ + 1 ELSE @,
                     !.cachedAfter = returns /\ docs
                         /\ CacheKey(slot.query[1]) \in DOMAIN out.cache]
             ELSE [req[s] EXCEPT
                     !.overlapped = @ \/ Joins(s),
                     !.raced = @ \/ (/\ Waiting(req[s])
                                     /\ CacheKey(req[s].query[1]) \in written)]]
        /\ lastStore' =
             IF docs /\ out.extracted /\ out.response # None
             THEN Recorded(lastStore, slot.query[1].library \o << ":" >>
                                      \o slot.query[1].term, out.response[1])
             ELSE lastStore
        /\ stored' =
             IF docs /\ out.extracted /\ out.response # None
             THEN Recorded(stored, Pair(slot.query[1]), out.response[1])
             ELSE stored
        /\ okReturned' =
             IF docs /\ returns /\ slot.status = Some(200) /\ out.response # None
             THEN Recorded(okReturned, Pair(slot.query[1]), out.response[1])
             ELSE okReturned

\* A handler that has returned has its object sent before another stretch of
\* handler code runs: Respond changes nothing but its own slot, so taking it
\* first loses no behaviour of the cache or of the other requests.
Sending == \E r \in Slots : req[r].pc = "done"

\* A new request runs in the first free execution context.
Accept(r) ==
    /\ req[r].pc = "idle"
    /\ \A s \in 1..(r - 1) : req[s].pc # "idle"
    /\ ~Sending
    /\ served < MaxRequests

\* the coroutine of slot r is resumed at the await it waits in
Resumed(r, await) == req[r].pc = await /\ ~Sending

\* ------------------------------------------------------------------------
\* Actions
\* ------------------------------------------------------------------------
\* POST /search_docs arrives
SearchDocs(r, query) ==
    /\ Accept(r)
    /\ served' = served + 1
    /\ Advance(r, [IdleSlot EXCEPT !.kind = "search_docs",
                                   !.query = Some(query),
                                   !.prior = DictGet(stored, Pair(query)),
                                   !.priorOk = DictGet(okReturned, Pair(query))],
               SearchDocsEnter(DOC_CACHE, query))

\* POST /code_examples arrives
CodeExamples(r, query) ==
    /\ Accept(r)
    /\ served' = served + 1
    /\ Advance(r, [IdleSlot EXCEPT !.kind = "code_examples",
                                   !.query = Some(query)],
               CodeExamplesEnter(DOC_CACHE, query))

\* GET /available_docs
AvailableDocs(r) ==
    /\ Accept(r)
    /\ served' = served + 1
    /\ Advance(r, [IdleSlot EXCEPT !.kind = "available_docs"],
               AvailableDocsReturn(DOC_CACHE))

\* GET /health
Health(r) ==
    /\ Accept(r)
    /\ served' = served + 1
    /\ Advance(r, [IdleSlot EXCEPT !.kind = "health"], HealthReturn(DOC_CACHE))

\* session.get gives a response with some status
GetReturns(r, status) ==
    /\ Resumed(r, "get")
    /\ UNCHANGED served
    /\ Advance(r, [req[r] EXCEPT !.status = Some(status)],
               IF IsDocs(req[r])
               THEN SearchDocsStatus(DOC_CACHE, req[r].query[1], status)
               ELSE CodeExamplesStatus(DOC_CACHE, req[r].query[1], status))

\* session.get fails (DNS, connection refused, timeout)
GetRaises(r, e) ==
    /\ Resumed(r, "get")
    /\ UNCHANGED served
    /\ Advance(r, req[r],
               IF IsDocs(req[r])
               THEN SearchDocsExcept(DOC_CACHE, req[r].query[1], e)
               ELSE CodeExamplesExcept(DOC_CACHE, req[r].query[1], e))

\* response.text() gives the body
TextReturns(r, html) ==
    /\ Resumed(r, "text")
    /\ UNCHANGED served
    /\ Advance(r, [req[r] EXCEPT !.html = Some(html)],
               IF IsDocs(req[r])
               THEN SearchDocsText(DOC_CACHE, req[r].query[1], html)
               ELSE CodeExamplesText(DOC_CACHE, req[r].query[1], html))

\* response.text() fails (connection lost, undecodable body)
TextRaises(r, e) ==
    /\ Resumed(r, "text")
    /\ UNCHANGED served
    /\ Advance(r, req[r],
               IF IsDocs(req[r])
               THEN SearchDocsExcept(DOC_CACHE, req[r].query[1], e)
               ELSE CodeExamplesExcept(DOC_CACHE, req[r].query[1], e))

\* The framework sends the returned object; the context is free again.
Respond(r) ==
    /\ req[r].pc = "done"
    /\ req' = [req EXCEPT ![r] = IdleSlot]
    /\ UNCHANGED << DOC_CACHE, served, lastStore, stored, okReturned >>

Step(r) ==
    \/ \E query \in DocumentationQuery : SearchDocs(r, query)
    \/ \E query \in CodeExampleQuery : CodeExamples(r, query)
    \/ AvailableDocs(r)
    \/ Health(r)
    \/ \E status \in Statuses : GetReturns(r, status)
    \/ \E e \in GetErrors : GetRaises(r, e)
    \/ \E html \in Pages : TextReturns(r, html)
    \/ \E e \in TextErrors : TextRaises(r, e)
    \/ Respond(r)

\* Requests run concurrently, interleaving at the awaits.
Next == \E r \in Slots : Step(r)

Spec == Init /\ [][Next]_vars

\* Requests handled one after another: one execution context.
SeqNext == Step(1)

SeqSpec == Init /\ [][SeqNext]_vars

\* ------------------------------------------------------------------------
\* Properties
\* ------------------------------------------------------------------------
Done(r) == req[r].pc = "done"

DocsDone(r) == Done(r) /\ req[r].kind = "search_docs"

CodeDone(r) == Done(r) /\ req[r].kind = "code_examples"

Returned(r) == req[r].response # None

\* the last element of the error message is the status code as text
CarriesStatus(error, status) ==
    error # None /\ error[1] # << >> /\ error[1][Len(error[1])] = ToString(status)

FetchFailed(r) == Done(r) /\ req[r].status \notin {None, Some(200)}

\* the records of a returned result: results or examples
Records(r) ==
    IF req[r].kind = "search_docs" THEN req[r].response[1].results
    ELSE req[r].response[1].examples

\* C1: a search_docs request whose lower-cased library is no key of
\* DOC_SOURCES gets empty results and the "is not available" error, and sends
\* no GET, whatever the cache holds.
C1_UnknownLibraryRejected ==
    \A r \in Slots :
        (DocsDone(r) /\ Lower(req[r].query[1].library) \notin DOMAIN DOC_SOURCES)
        => /\ Returned(r)
           /\ req[r].response[1].results = << >>
           /\ req[r].response[1].error =
                Some(<< "Documentation for " >> \o req[r].query[1].library
                     \o << " is not available" >>)
           /\ req[r].fetches = 0

\* C2: the results a search_docs request gets are at most its max_results
\* long, also when the cache was filled by a request with another max_results.
C2_ResultsWithinMaxResults ==
    \A r \in Slots :
        (DocsDone(r) /\ Returned(r) /\ req[r].query[1].max_results # None)
        => Len(req[r].response[1].results) <= req[r].query[1].max_results[1]

\* C3 as claimed: a request whose GET returned a status other than 200 gets
\* an empty list and an error carrying the status, changes nothing in the
\* cache, and the cache holds no entry for its key when it returns.
C3_FetchFailedNoEntryAfterward ==
    \A r \in Slots :
        FetchFailed(r)
        => /\ Returned(r)
           /\ Records(r) = << >>
           /\ CarriesStatus(req[r].response[1].error, req[r].status[1])
           /\ req[r].stores = 0
           /\ ~req[r].cachedAfter

\* C3 as amended: a request whose GET returned a status other than 200 gets
\* an empty list and an error carrying the status and changes nothing in the
\* cache; the cache holds an entry for its key when it returns only if
\* another request wrote that key while this one waited for the GET.
C3_FetchFailedLeavesCacheUnchanged ==
    \A r \in Slots :
        FetchFailed(r)
        => /\ Returned(r)
           /\ Records(r) = << >>
           /\ CarriesStatus(req[r].response[1].error, req[r].status[1])
           /\ req[r].stores = 0
           /\ (req[r].cachedAfter => req[r].raced)

\* a search_docs request got 404 while another request stored its key
C3_Witness ==
    \E r \in Slots :
        /\ DocsDone(r)
        /\ req[r].status = Some(404)
        /\ req[r].cachedAfter
        /\ req[r].raced

\* C4 as claimed (requests one after another): once a request for a library
\* and term got status 200 and returned, a later request for the same library
\* and term returns the same object, sends no GET and parses nothing.
C4_HitAfterStatus200 ==
    \A r \in Slots :
        (DocsDone(r) /\ req[r].priorOk # None)
        => /\ req[r].response = req[r].priorOk
           /\ req[r].fetches = 0
           /\ ~req[r].extracted

\* C4 as amended (requests one after another): once a request for a library
\* and term got status 200, read and parsed the body without an exception
\* and returned, a later request for the same library and term returns the
\* same object, sends no GET and parses nothing.
C4_HitAfterStore ==
    \A r \in Slots :
        (DocsDone(r) /\ req[r].prior # None)
        => /\ req[r].response = req[r].prior
           /\ req[r].fetches = 0
           /\ ~req[r].extracted

\* a request arrives for a library and term an earlier request stored, with
\* another max_results than the earlier one
C4_Witness ==
    \E r \in Slots :
        /\ DocsDone(r)
        /\ req[r].prior # None
        /\ req[r].prior[1].results # << >>
        /\ req[r].query[1].max_results # None

\* C5: a search_docs or code_examples request always ends with a returned
\* result object, never with an exception leaving the handler, and a result
\* with an error has no records.
C5_AlwaysReturnsResult ==
    \A r \in Slots :
        (DocsDone(r) \/ CodeDone(r))
        => /\ req[r].raised = None
           /\ Returned(r)
           /\ (req[r].response[1].error # None => Records(r) = << >>)

\* response.text() raised after a status 200, and the request returned the
\* error result
C5_Witness ==
    \E r \in Slots :
        /\ DocsDone(r) \/ CodeDone(r)
        /\ req[r].status = Some(200)
        /\ req[r].html = None
        /\ Returned(r)
        /\ req[r].response[1].error = Some(<< "Response payload is not completed" >>)

\* What C6 says get_code_examples returns for python: of all <pre> blocks
\* whose text contains the function name, the first max_examples.
FilterThenCap(html, function, max_examples) ==
    LET code_blocks == SelectIdx(html, {"pre"})
        HasFunction(i) == Contains(function, html[i].text)
        kept == PySlice(SelectSeq(code_blocks, HasFunction), max_examples)
    IN  [j \in 1..Len(kept) |-> ExampleRecord(html, kept[j])]

\* C6: for language python and a status-200 page, the examples are the first
\* max_examples of all <pre> blocks containing the function name.
C6_ExamplesAreFilterThenCap ==
    \A r \in Slots :
        (/\ CodeDone(r)
         /\ req[r].html # None
         /\ Lower(req[r].query[1].language[1]) = python)
        => /\ Returned(r)
           /\ req[r].response[1].examples =
                FilterThenCap(req[r].html[1], req[r].query[1].function,
                              req[r].query[1].max_examples)

\* C7: a code_examples request whose lower-cased language is no key of
\* CODE_EXAMPLE_SOURCES gets empty examples and the "are not available"
\* error, sends no GET and changes nothing in the cache.
C7_UnknownLanguageRejected ==
    \A r \in Slots :
        (/\ CodeDone(r)
         /\ req[r].query[1].language # None
         /\ Lower(req[r].query[1].language[1]) \notin DOMAIN CODE_EXAMPLE_SOURCES)
        => /\ Returned(r)
           /\ req[r].response[1].examples = << >>
           /\ req[r].response[1].error =
                Some(<< "Code examples for " >>
                     \o Lower(req[r].query[1].language[1])
                     \o << " are not available" >>)
           /\ req[r].fetches = 0
           /\ req[r].url = None
           /\ req[r].stores = 0

\* a code_examples request for ruby has returned while the cache holds an entry
C7_Witness ==
    \E r \in Slots :
        /\ CodeDone(r)
        /\ req[r].query[1].language = Some(<< "r", "u", "b", "y" >>)
        /\ DOMAIN DOC_CACHE # {}

\* C8: the result a search_docs request gets has the library and the term of
\* that request, also when it comes from the cache.
C8_ResultEchoesQuery ==
    \A r \in Slots :
        (DocsDone(r) /\ Returned(r))
        => /\ req[r].response[1].library = req[r].query[1].library
           /\ req[r].response[1].term = req[r].query[1].term

\* C9 as claimed: a search_docs request that waited for its GET at the same
\* time as another request for the same library and term has sent its own GET
\* and stored its own result, so the cache holds an entry for the key; and
\* the cache holds under every key the result last written under it.
C9_EveryMissStores ==
    /\ DOC_CACHE = lastStore
    /\ \A r \in Slots :
          (DocsDone(r) /\ req[r].overlapped)
          => /\ req[r].fetches = 1
             /\ req[r].cachedAfter
             /\ DOC_CACHE[CacheKey(req[r].query[1])] = req[r].response[1]

\* C9 as amended: such a request has sent its own GET, and if that GET
\* returned 200 and the body was read without an exception it has stored its
\* own result under its key; the cache holds under every key the result last
\* written under it (none if none was written), whatever the interleaving.
C9_LastWriteWins ==
    /\ DOC_CACHE = lastStore
    /\ \A r \in Slots :
          (DocsDone(r) /\ req[r].overlapped)
          => /\ req[r].fetches = 1
             /\ req[r].extracted
                  => /\ req[r].cachedAfter
                     /\ DOC_CACHE[CacheKey(req[r].query[1])] = req[r].response[1]

\* two requests for one key waited together, the other stored first, and
\* this one overwrote it with a different result
C9_Witness ==
    \E r \in Slots :
        /\ DocsDone(r)
        /\ req[r].overlapped
        /\ req[r].raced
        /\ req[r].extracted
        /\ req[r].stores = 1
        /\ req[r].response[1].results # << >>

\* C10: every cache entry is a success result of a registered library, stored
\* under the key made of its own library and term; only search_docs changes
\* the cache.
C10_CacheHoldsOnlySuccesses ==
    /\ \A k \in DOMAIN DOC_CACHE :
          /\ DOC_CACHE[k].error = None
          /\ Lower(DOC_CACHE[k].library) \in DOMAIN DOC_SOURCES
          /\ k = DOC_CACHE[k].library \o << ":" >> \o DOC_CACHE[k].term
    /\ \A r \in Slots :
          req[r].kind \in {"code_examples", "available_docs", "health"}
          => req[r].stores = 0

\* the cache holds an entry of a library spelt with a capital while a
\* code_examples request has parsed its page and returned
C10_Witness ==
    /\ \E k \in DOMAIN DOC_CACHE : DOC_CACHE[k].library = Python
    /\ \E r \in Slots : CodeDone(r) /\ req[r].extracted

============================================================================
